---------------------------- MODULE Spec2Model ----------------------------
(***************************************************************************)
(* A model of omsim-rs: hex-grid geometry (src/src/data.rs), the binary    *)
(* codec for puzzle and solution files (src/src/parse.rs), the collision   *)
(* test (src/src/sim/collision.rs) and the simulation set-up and part tick *)
(* (src/src/sim/mod.rs).                                                   *)
(*                                                                         *)
(* Each component has its own variables and its own specification; the     *)
(* variables of the components a specification does not exercise stay at   *)
(* their idle value.                                                       *)
(***************************************************************************)
EXTENDS Integers, Sequences, FiniteSets, TLC

VARIABLES
    \* ---- hex geometry (data.rs) ----
    hexH,       \* the HexIndex the rotations started from
    hexPivot,   \* the pivot `around`
    hexBy,      \* the HexRotation's turn count
    hexCur,     \* the HexIndex after the rotations applied so far
    hexN,       \* how many times rotated(hexPivot, hexBy) was applied
    hexBack,    \* whether rotated(hexPivot, (6 - hexBy) mod 6) was applied
    \* ---- binary codec (parse.rs) ----
    pSrc,       \* the file handed to the parser: its bytes and how they were built
    pKind,      \* "puzzle" for parse_puzzle, "solution" for parse_solution
    pPc,        \* the field parse_puzzle / parse_solution reads next, or "done"
    pData,      \* BaseParser::data, the bytes not yet read
    pAcc,       \* the locals of parse_puzzle / parse_solution read so far
    pRes,       \* the Result returned (st = "running" until then)
    \* ---- collision test (sim/collision.rs) ----
    colIn,      \* the colliders handed to collides
    colSteps,   \* the step count handed to collides
    colDone,    \* whether collides has returned
    colRes,     \* what it returned
    \* ---- simulation (sim/mod.rs, Puzzle::clean_solution) ----
    simPuzzle,      \* the Puzzle handed to Sim::create
    simSolution,    \* the Solution handed to Sim::create
    simPc,          \* where Sim::create stands: "clean", "build", then "ready"
                    \* (a Sim was returned), "err" or "panic"
    simClean,       \* sol_clean, the Solution clean_solution returned
    simParts,       \* the SimParts built so far; Sim::parts once "ready"
    simMolecules,   \* Sim::molecules
    simRes,         \* the error Sim::create returned, and the call it came from
    simReads,       \* every indexing of puzzle.reagents / puzzle.products so far
    simTicks,       \* the parts ticked so far, in order
    \* ---- molecules (data.rs) ----
    molSrc,     \* the bytes handed to parse_molecule
    molPc,      \* "parse", then "have" (a Molecule was returned) or "rejected"
    mol0,       \* the Molecule as parse_molecule returned it
    mol,        \* the Molecule after the transforms applied so far
    molOps,     \* how many transforms were applied
    \* ---- bond types (parse.rs) ----
    bondIn,     \* the bytes handed to parse_bond_type
    bondOut,    \* the Result it returned ("pending" until then)
    \* ---- rotations (data.rs) ----
    rotA,       \* a HexRotation, the left operand and the target of += and -=
    rotB,       \* the HexRotation last used as right operand
    rotOp,      \* the last operation applied
    rotWas,     \* rotA before that operation
    rotOut,     \* the HexRotation that operation returned or stored
    rotN        \* how many operations were applied

hexVars == <<hexH, hexPivot, hexBy, hexCur, hexN, hexBack>>
parseVars == <<pSrc, pKind, pPc, pData, pAcc, pRes>>

colVars == <<colIn, colSteps, colDone, colRes>>
simVars == <<simPuzzle, simSolution, simPc, simClean, simParts, simMolecules,
             simRes, simReads, simTicks>>
molVars == <<molSrc, molPc, mol0, mol, molOps>>

bondVars == <<bondIn, bondOut>>
rotVars == <<rotA, rotB, rotOp, rotWas, rotOut, rotN>>

vars == <<hexVars, parseVars, colVars, simVars, molVars, bondVars, rotVars>>
notHexVars == <<parseVars, colVars, simVars, molVars, bondVars, rotVars>>
notParseVars == <<hexVars, colVars, simVars, molVars, bondVars, rotVars>>
notColVars == <<hexVars, parseVars, simVars, molVars, bondVars, rotVars>>
notSimVars == <<hexVars, parseVars, colVars, molVars, bondVars, rotVars>>
notMolVars == <<hexVars, parseVars, colVars, simVars, bondVars, rotVars>>
notBondVars == <<hexVars, parseVars, colVars, simVars, molVars, rotVars>>
notRotVars == <<hexVars, parseVars, colVars, simVars, molVars, bondVars>>

None == "none"

\* the value of the variables of a component that is not exercised
HexIdle ==
    /\ hexH = None /\ hexPivot = None /\ hexBy = None
    /\ hexCur = None /\ hexN = None /\ hexBack = None
ParseIdle ==
    /\ pSrc = None /\ pKind = None /\ pPc = None
    /\ pData = None /\ pAcc = None /\ pRes = None
ColIdle ==
    /\ colIn = None /\ colSteps = None /\ colDone = None /\ colRes = None
SimIdle ==
    /\ simPuzzle = None /\ simSolution = None /\ simPc = None
    /\ simClean = None /\ simParts = None /\ simMolecules = None
    /\ simRes = None /\ simReads = None /\ simTicks = None
MolIdle ==
    /\ molSrc = None /\ molPc = None /\ mol0 = None /\ mol = None
    /\ molOps = None
BondIdle == bondIn = None /\ bondOut = None
RotIdle ==
    /\ rotA = None /\ rotB = None /\ rotOp = None /\ rotWas = None
    /\ rotOut = None /\ rotN = None

-----------------------------------------------------------------------------
(* i32 arithmetic.  TLC's integers are themselves 32 bits wide, so        *)
(* the wrapped sum is computed without ever leaving the i32 range.  Rust    *)
(* wraps in release builds; a debug build traps where these wrap.           *)

MaxI32 == 2147483647
MinI32 == -MaxI32 - 1

AddI32(a, b) ==
    IF a >= 0 /\ b > MaxI32 - a THEN (a + MinI32) + (b + MinI32)
    ELSE IF a < 0 /\ b < MinI32 - a THEN (a - MinI32) + (b - MinI32)
    ELSE a + b

NegI32(a) == IF a = MinI32 THEN MinI32 ELSE -a

SubI32(a, b) == AddI32(a, NegI32(b))

-----------------------------------------------------------------------------
(* HexIndex, data.rs *)

Hex(q, r) == [q |-> q, r |-> r]

\* HexIndex::s
HexS(h) == SubI32(NegI32(h.q), h.r)

\* impl Add for HexIndex
HexAdd(a, b) == Hex(AddI32(a.q, b.q), AddI32(a.r, b.r))

\* impl Sub for HexIndex
HexSub(a, b) == Hex(SubI32(a.q, b.q), SubI32(a.r, b.r))

\* a quarter-turn-like slip: (q, r) -> (-r, q) has order 4, not 6
rotated_cw_Slip(h) == Hex(NegI32(h.r), h.q)

\* HexIndex::rotated_cw
rotated_cw(h) == Hex(NegI32(h.r), NegI32(HexS(h)))

RECURSIVE RotateTimes(_, _)
\* the loop `for _ in 0..by.turns() { offset = offset.rotated_cw() }`
RotateTimes(offset, n) ==
    IF n = 0 THEN offset ELSE RotateTimes(rotated_cw(offset), n - 1)

\* HexIndex::rotated
rotated(h, around, by) == HexAdd(RotateTimes(HexSub(h, around), by), around)

\* HexRotation::from_unsigned
from_unsigned(turns) == turns % 6

-----------------------------------------------------------------------------
(* Specification SpecHex: rotated(pivot, by) applied again and again to a   *)
(* point, and the opposite rotation applied after the first.                *)

CoordMax == 1
MaxApplications == 6

Coords == (-CoordMax .. CoordMax) \cup {MinI32, MaxI32}
HexPoints == {Hex(q, r) : q \in Coords, r \in Coords}

HexInit ==
    /\ hexH \in HexPoints
    /\ hexPivot \in HexPoints
    /\ hexBy \in 0 .. 5
    /\ hexCur = hexH
    /\ hexN = 0
    /\ hexBack = FALSE
    /\ ParseIdle /\ ColIdle /\ SimIdle /\ MolIdle /\ BondIdle /\ RotIdle

HexRotate ==
    /\ hexN < MaxApplications
    /\ ~hexBack
    /\ hexCur' = rotated(hexCur, hexPivot, hexBy)
    /\ hexN' = hexN + 1
    /\ UNCHANGED <<hexH, hexPivot, hexBy, hexBack>>
    /\ UNCHANGED notHexVars

HexRotateBack ==
    /\ hexN = 1
    /\ ~hexBack
    /\ hexCur' = rotated(hexCur, hexPivot, from_unsigned(6 - hexBy))
    /\ hexBack' = TRUE
    /\ UNCHANGED <<hexH, hexPivot, hexBy, hexN>>
    /\ UNCHANGED notHexVars

HexNext == HexRotate \/ HexRotateBack

SpecHex == HexInit /\ [][HexNext]_vars

\* C1: applying rotated(pivot, r) six times in a row to h returns h, and
\* applying rotated(pivot, r) and then rotated(pivot, (6 - r) mod 6) returns h.
C1_RotationReturns ==
    /\ (hexN = 6 /\ ~hexBack) => hexCur = hexH
    /\ hexBack => hexCur = hexH

\* a point off the pivot has gone once round in six single turns
C1_Witness ==
    /\ hexN = 6
    /\ hexBy = 1
    /\ hexH # hexPivot
    /\ hexCur = hexH

-----------------------------------------------------------------------------
(* BaseParser, parse.rs.  A parser call on the remaining buffer d returns   *)
(* a record: st = "ok" with the value v and the buffer d left after it,     *)
(* st = "err" for Err(msg), st = "panic" when the call panics.  A byte is   *)
(* a number in 0 .. 255, a String is the sequence of its UTF-8 bytes.       *)

Ok(v, d) == [st |-> "ok", v |-> v, d |-> d, msg |-> ""]
Err(msg) == [st |-> "err", v |-> None, d |-> <<>>, msg |-> msg]
Panic(msg) == [st |-> "panic", v |-> None, d |-> <<>>, msg |-> msg]

\* &self.data[n..]
Rest(d, n) == SubSeq(d, n + 1, Len(d))

RECURSIVE BitAnd(_, _)
\* u8 & u8
BitAnd(a, b) ==
    IF a = 0 \/ b = 0 THEN 0
    ELSE (a % 2) * (b % 2) + 2 * BitAnd(a \div 2, b \div 2)

RECURSIVE Pow2(_)
\* 1 << n
Pow2(n) == IF n = 0 THEN 1 ELSE 2 * Pow2(n - 1)

\* BaseParser::parse_byte
parse_byte(d) ==
    IF Len(d) = 0 THEN Err("not enough bytes") ELSE Ok(d[1], Rest(d, 1))

\* BaseParser::parse_sbyte: i8::from_be_bytes of one byte
parse_sbyte(d) ==
    IF Len(d) = 0 THEN Err("not enough bytes")
    ELSE Ok(IF d[1] >= 128 THEN d[1] - 256 ELSE d[1], Rest(d, 1))

\* i32::from_le_bytes
I32FromLe(b) ==
    (IF b[4] >= 128 THEN b[4] - 256 ELSE b[4]) * 16777216
        + b[3] * 65536 + b[2] * 256 + b[1]

\* i64::from_le_bytes; a 64-bit word is held as the set of its one bits
I64FromLe(b) ==
    {n \in 0 .. 63 : (b[(n \div 8) + 1] \div Pow2(n % 8)) % 2 = 1}

\* BaseParser::parse_int
parse_int(d) ==
    IF Len(d) >= 4 THEN Ok(I32FromLe(SubSeq(d, 1, 4)), Rest(d, 4))
    ELSE Err("not enough bytes to read int")

\* BaseParser::parse_long
parse_long(d) ==
    IF Len(d) >= 8 THEN Ok(I64FromLe(SubSeq(d, 1, 8)), Rest(d, 8))
    ELSE Err("not enough bytes to read long")

RECURSIVE var_int_loop(_, _, _)
\* the while loop of BaseParser::parse_var_int.  `value |= x << shift` adds
\* x * 2^shift: the bits below 2^shift are the only ones set in value.
var_int_loop(d, value, shift) ==
    IF Len(d) > 0
    THEN LET b == parse_byte(d)
             next == b.v
             value2 == value + BitAnd(next, 127) * Pow2(shift)
         IN  IF BitAnd(next, 128) # 1
             THEN Ok(value2, b.d)
             ELSE var_int_loop(b.d, value2, shift + 7)
    ELSE Ok(value, d)

\* BaseParser::parse_var_int
parse_var_int(d) == var_int_loop(d, 0, 0)

RECURSIVE ValidUtf8(_)
\* String::from_utf8: whether the bytes are well-formed UTF-8
ValidUtf8(b) ==
    LET n == Len(b)
        Cont(i) == i <= n /\ b[i] >= 128 /\ b[i] <= 191
        In(i, lo, hi) == i <= n /\ b[i] >= lo /\ b[i] <= hi
    IN  IF n = 0 THEN TRUE
        ELSE IF b[1] <= 127 THEN ValidUtf8(Rest(b, 1))
        ELSE IF b[1] >= 194 /\ b[1] <= 223
            THEN Cont(2) /\ ValidUtf8(Rest(b, 2))
        ELSE IF b[1] = 224
            THEN In(2, 160, 191) /\ Cont(3) /\ ValidUtf8(Rest(b, 3))
        ELSE IF b[1] = 237
            THEN In(2, 128, 159) /\ Cont(3) /\ ValidUtf8(Rest(b, 3))
        ELSE IF b[1] >= 225 /\ b[1] <= 239
            THEN Cont(2) /\ Cont(3) /\ ValidUtf8(Rest(b, 3))
        ELSE IF b[1] = 240
            THEN In(2, 144, 191) /\ Cont(3) /\ Cont(4) /\ ValidUtf8(Rest(b, 4))
        ELSE IF b[1] >= 241 /\ b[1] <= 243
            THEN Cont(2) /\ Cont(3) /\ Cont(4) /\ ValidUtf8(Rest(b, 4))
        ELSE IF b[1] = 244
            THEN In(2, 128, 143) /\ Cont(3) /\ Cont(4) /\ ValidUtf8(Rest(b, 4))
        ELSE FALSE

\* BaseParser::parse_string.  &self.data[..length] panics when length
\* exceeds the bytes left.
parse_string(d) ==
    LET l == parse_var_int(d)
    IN  IF l.st # "ok" THEN l
        ELSE IF l.v > Len(l.d) THEN Panic("range end index out of range for slice")
        ELSE IF ~ValidUtf8(SubSeq(l.d, 1, l.v)) THEN Err("invalid utf8")
        ELSE Ok(SubSeq(l.d, 1, l.v), Rest(l.d, l.v))

\* BaseParser::parse_b_hex_index: the first byte read is the first
\* coordinate, the second byte the second
parse_b_hex_index(d) ==
    LET a == parse_sbyte(d)
    IN  IF a.st # "ok" THEN a
        ELSE LET b == parse_sbyte(a.d)
             IN  IF b.st # "ok" THEN b ELSE Ok(Hex(a.v, b.v), b.d)

\* BaseParser::parse_i_hex_index
parse_i_hex_index(d) ==
    LET a == parse_int(d)
    IN  IF a.st # "ok" THEN a
        ELSE LET b == parse_int(a.d)
             IN  IF b.st # "ok" THEN b ELSE Ok(Hex(a.v, b.v), b.d)

\* the byte ids of BaseParser::parse_atom, 1 .. 16 in this order
AtomNames ==
    << "Salt", "Air", "Earth", "Fire", "Water", "Quicksilver", "Gold",
       "Silver", "Copper", "Iron", "Tin", "Lead", "Vitae", "Mors", "Repeat",
       "Quintessence" >>

\* BaseParser::parse_atom
parse_atom(d) ==
    LET b == parse_byte(d)
    IN  IF b.st # "ok" THEN b
        ELSE IF b.v >= 1 /\ b.v <= 16 THEN Ok(AtomNames[b.v], b.d)
        ELSE Err("invalid atom type")

\* BondType
Normal == [kind |-> "Normal", red |-> FALSE, black |-> FALSE, yellow |-> FALSE]
Triplex(r, b, y) == [kind |-> "Triplex", red |-> r, black |-> b, yellow |-> y]

\* parse_bond_type with the mask 0b1111_000_0, bits 4 to 7 alone
parse_bond_type_HighBitsOnly(d) ==
    LET b == parse_byte(d)
        ty == b.v
    IN  IF b.st # "ok" THEN b
        ELSE IF ty = 1 THEN Ok(Normal, b.d)
        ELSE IF BitAnd(ty, 240) # 0 THEN Err("invalid bond type")
        ELSE Ok(Triplex(BitAnd(ty, 2) # 0, BitAnd(ty, 4) # 0, BitAnd(ty, 8) # 0), b.d)

\* BaseParser::parse_bond_type; 0b1111_000_1 is 241
parse_bond_type(d) ==
    LET b == parse_byte(d)
        ty == b.v
    IN  IF b.st # "ok" THEN b
        ELSE IF ty = 1 THEN Ok(Normal, b.d)
        ELSE IF BitAnd(ty, 241) # 0 THEN Err("invalid bond type")
        ELSE Ok(Triplex(BitAnd(ty, 2) # 0, BitAnd(ty, 4) # 0, BitAnd(ty, 8) # 0), b.d)

\* BaseParser::parse_bond
parse_bond(d) ==
    LET t == parse_bond_type(d)
    IN  IF t.st # "ok" THEN t
        ELSE LET s == parse_b_hex_index(t.d)
             IN  IF s.st # "ok" THEN s
                 ELSE LET e == parse_b_hex_index(s.d)
                      IN  IF e.st # "ok" THEN e
                          ELSE Ok([ty |-> t.v, start |-> s.v, end |-> e.v], e.d)

\* the closure of parse_molecule: an atom and its position
parse_atom_entry(d) ==
    LET a == parse_atom(d)
    IN  IF a.st # "ok" THEN a
        ELSE LET i == parse_b_hex_index(a.d)
             IN  IF i.st # "ok" THEN i ELSE Ok(<<i.v, a.v>>, i.d)

\* HashMap::from_iter: of two entries with one key, the later one stays
HashMapFromIter(entries) ==
    LET keys == {entries[i][1] : i \in 1 .. Len(entries)}
        Last(k) == CHOOSE i \in 1 .. Len(entries) :
                       /\ entries[i][1] = k
                       /\ \A j \in i + 1 .. Len(entries) : entries[j][1] # k
    IN  [k \in keys |-> entries[Last(k)][2]]

\* the bonds of a Molecule are a HashSet<Bond>
HashSetFromIter(items) == {items[i] : i \in 1 .. Len(items)}

\* "track" and "pipe" as UTF-8 bytes
StrTrack == <<116, 114, 97, 99, 107>>
StrPipe == <<112, 105, 112, 101>>

\* Option<T>
NoneOpt == [some |-> FALSE]
Some(x) == [some |-> TRUE, v |-> x]

RECURSIVE parse_list(_, _), list_loop(_, _, _, _), parse_elem(_, _)
RECURSIVE parse_molecule(_), parse_part(_), read_part_field(_, _, _)

\* BaseParser::parse_list.  A negative amount, cast to usize, is above
\* isize::MAX and Vec::with_capacity panics with a capacity overflow.  (A
\* large positive amount only reserves memory; the reservation is taken to
\* succeed.)
parse_list(d, kind) ==
    LET amount == parse_int(d)
    IN  IF amount.st # "ok" THEN amount
        ELSE IF amount.v < 0 THEN Panic("capacity overflow")
        ELSE list_loop(amount.d, kind, amount.v, <<>>)

\* the loop `for _ in 0..amount { result.push(f(self)?) }`
list_loop(d, kind, left, acc) ==
    IF left = 0 THEN Ok(acc, d)
    ELSE LET e == parse_elem(kind, d)
         IN  IF e.st # "ok" THEN e
             ELSE list_loop(e.d, kind, left - 1, Append(acc, e.v))

\* the closure `f` handed to parse_list
parse_elem(kind, d) ==
    CASE kind = "molecule" -> parse_molecule(d)
      [] kind = "atom_entry" -> parse_atom_entry(d)
      [] kind = "bond" -> parse_bond(d)
      [] kind = "hex" -> parse_i_hex_index(d)
      [] kind = "instruction" ->
            LET idx == parse_int(d)
            IN  IF idx.st # "ok" THEN idx
                ELSE LET instr == parse_byte(idx.d)
                     IN  IF instr.st # "ok" THEN instr
                         ELSE Ok(<<"Blank", idx.v>>, instr.d)
      [] kind = "part" -> parse_part(d)

\* BaseParser::parse_molecule
parse_molecule(d) ==
    LET a == parse_list(d, "atom_entry")
    IN  IF a.st # "ok" THEN a
        ELSE LET b == parse_list(a.d, "bond")
             IN  IF b.st # "ok" THEN b
                 ELSE Ok([atoms |-> HashMapFromIter(a.v),
                          bonds |-> HashSetFromIter(b.v)], b.d)

\* the locals of the closure of parse_solution that reads one part, in the
\* order the closure reads them (parse.rs 44-64)
PartFields ==
    << "name", "one", "pos", "arm_length", "rotation", "index", "instructions",
       "track_hexes", "arm_number", "conduit_index", "conduit_hexes" >>

\* one read of that closure, the locals read before it in acc
read_part_field(f, acc, d) ==
    CASE f = "name" -> parse_string(d)
      [] f = "one" ->
            LET b == parse_byte(d)
            IN  IF b.st = "ok" /\ b.v # 1
                THEN Err("invalid solution part (1 != 1)") ELSE b
      [] f = "pos" -> parse_i_hex_index(d)
      [] f = "arm_length" -> parse_int(d)
      [] f = "rotation" -> parse_int(d)
      [] f = "index" -> parse_int(d)
      [] f = "instructions" -> parse_list(d, "instruction")
      [] f = "track_hexes" ->
            IF acc.name = StrTrack THEN parse_list(d, "hex") ELSE Ok(<<>>, d)
      [] f = "arm_number" ->
            LET n == parse_int(d)
            IN  IF n.st = "ok" THEN Ok(AddI32(n.v, 1), n.d) ELSE n
      [] f = "conduit_index" ->
            IF acc.name = StrPipe THEN parse_int(d) ELSE Ok(0, d)
      [] f = "conduit_hexes" ->
            IF acc.name = StrPipe THEN parse_list(d, "hex") ELSE Ok(<<>>, d)

\* `Ok(Part{ ty: PartType::Arm, pos, rotation, .. })`
PartValue(acc) ==
    [ty |-> "Arm", pos |-> acc.pos, rotation |-> acc.rotation,
     arm_number |-> acc.arm_number, arm_length |-> acc.arm_length,
     index |-> acc.index, conduit_index |-> acc.conduit_index,
     track_hexes |-> acc.track_hexes, conduit_hexes |-> acc.conduit_hexes,
     instructions |-> acc.instructions]

RECURSIVE part_fields(_, _, _)
\* the reads of the closure one after the other, each ending the closure
\* when it fails
part_fields(i, acc, d) ==
    IF i > Len(PartFields) THEN Ok(PartValue(acc), d)
    ELSE LET r == read_part_field(PartFields[i], acc, d)
         IN  IF r.st # "ok" THEN r
             ELSE part_fields(i + 1, [acc EXCEPT ![PartFields[i]] = r.v], r.d)

\* the closure of parse_solution that reads one part (parse.rs 43-67)
parse_part(d) ==
    part_fields(1, [f \in {PartFields[i] : i \in 1 .. Len(PartFields)} |-> None], d)

\* cost and area changed places
MetricsValue_Swapped(cycles, cost, area, instructions) ==
    Some([cycles |-> cycles, cost |-> area, area |-> cost,
          instructions |-> instructions])

\* `Some(Metrics{ cycles, cost, area, instructions })`
MetricsValue(cycles, cost, area, instructions) ==
    Some([cycles |-> cycles, cost |-> cost, area |-> area,
          instructions |-> instructions])

\* the `match parser.parse_int()?` of parse_solution that decodes the
\* metrics (parse.rs 28-42)
parse_metrics(d) ==
    LET tag == parse_int(d) IN
    IF tag.st # "ok" THEN tag ELSE
    IF tag.v = 0 THEN Ok(NoneOpt, tag.d) ELSE
    IF tag.v # 4 THEN Err("invalid number of metrics") ELSE
    LET i0 == parse_int(tag.d) IN
    IF i0.st # "ok" THEN i0 ELSE
    IF i0.v # 0 THEN Err("invalid solution (0 != 0)") ELSE
    LET cycles == parse_int(i0.d) IN
    IF cycles.st # "ok" THEN cycles ELSE
    LET i1 == parse_int(cycles.d) IN
    IF i1.st # "ok" THEN i1 ELSE
    IF i1.v # 1 THEN Err("invalid solution (1 != 1)") ELSE
    LET cost == parse_int(i1.d) IN
    IF cost.st # "ok" THEN cost ELSE
    LET i2 == parse_int(cost.d) IN
    IF i2.st # "ok" THEN i2 ELSE
    IF i2.v # 2 THEN Err("invalid solution (2 != 2)") ELSE
    LET area == parse_int(i2.d) IN
    IF area.st # "ok" THEN area ELSE
    LET i3 == parse_int(area.d) IN
    IF i3.st # "ok" THEN i3 ELSE
    IF i3.v # 3 THEN Err("invalid solution (3 != 3)") ELSE
    LET instructions == parse_int(i3.d) IN
    IF instructions.st # "ok" THEN instructions ELSE
    Ok(MetricsValue(cycles.v, cost.v, area.v, instructions.v), instructions.d)

-----------------------------------------------------------------------------
(* The wire format (spec 4.2, and the fields parse.rs reads), as encoders:  *)
(* the files handed to the parsers are built with these.                    *)

\* a 32-bit little-endian integer
EncInt(i) ==
    << i % 256, (i \div 256) % 256, (i \div 65536) % 256, (i \div 16777216) % 256 >>

\* a 64-bit little-endian word, given as the set of its one bits
EncLong(bits) ==
    LET Weight(n) == IF n \in bits THEN Pow2(n % 8) ELSE 0
        ByteOf(i) == LET b == 8 * (i - 1)
                     IN  Weight(b) + Weight(b + 1) + Weight(b + 2) + Weight(b + 3)
                         + Weight(b + 4) + Weight(b + 5) + Weight(b + 6) + Weight(b + 7)
    IN  [i \in 1 .. 8 |-> ByteOf(i)]

RECURSIVE EncVarInt(_)
\* a 7-bit varint, low group first, the high bit of a byte set when more follow
EncVarInt(n) ==
    IF n < 128 THEN <<n>> ELSE <<128 + (n % 128)>> \o EncVarInt(n \div 128)

\* a string: its length as a varint, then its bytes
EncStr(b) == EncVarInt(Len(b)) \o b

RECURSIVE Concat(_)
Concat(seqs) == IF seqs = <<>> THEN <<>> ELSE Head(seqs) \o Concat(Tail(seqs))

\* a list: a 32-bit count, then the elements
EncList(items) == EncInt(Len(items)) \o Concat(items)

\* a HexIndex as two signed bytes, and as two 32-bit integers
EncHexB(h) == << h.q % 256, h.r % 256 >>
EncHexI(h) == EncInt(h.q) \o EncInt(h.r)

\* a molecule: atoms as <<byte id, position>>, bonds as <<type byte, start, end>>
EncMolecule(m) ==
    EncList([i \in 1 .. Len(m.atoms) |->
                <<m.atoms[i][1]>> \o EncHexB(m.atoms[i][2])])
    \o EncList([i \in 1 .. Len(m.bonds) |->
                <<m.bonds[i][1]>> \o EncHexB(m.bonds[i][2]) \o EncHexB(m.bonds[i][3])])

\* a puzzle record
EncPuzzle(tag, name, creator, perm, reagents, products, mult) ==
    EncInt(tag) \o EncStr(name) \o EncLong(creator) \o EncLong(perm)
    \o EncList([i \in 1 .. Len(reagents) |-> EncMolecule(reagents[i])])
    \o EncList([i \in 1 .. Len(products) |-> EncMolecule(products[i])])
    \o EncInt(mult)

\* the metrics of a solution record: the tag, and for tag 4 four pairs
EncMetrics(tag, idx, val) ==
    EncInt(tag) \o
    (IF tag = 4
     THEN Concat([i \in 1 .. 4 |-> EncInt(idx[i]) \o EncInt(val[i])])
     ELSE <<>>)

\* a part of a solution record
EncPart(p) ==
    EncStr(p.name) \o <<p.one>> \o EncHexI(p.pos) \o EncInt(p.arm_length)
    \o EncInt(p.rotation) \o EncInt(p.index)
    \o EncList([i \in 1 .. Len(p.instructions) |->
                 EncInt(p.instructions[i][1]) \o <<p.instructions[i][2]>>])
    \o (IF p.name = StrTrack
        THEN EncList([i \in 1 .. Len(p.hexes) |-> EncHexI(p.hexes[i])])
        ELSE <<>>)
    \o EncInt(p.arm_number)
    \o (IF p.name = StrPipe
        THEN EncInt(p.conduit) \o EncList([i \in 1 .. Len(p.hexes) |-> EncHexI(p.hexes[i])])
        ELSE <<>>)

\* a solution record
EncSolution(tag, pid, name, metrics, parts) ==
    EncInt(tag) \o EncStr(pid) \o EncStr(name) \o metrics
    \o EncList([i \in 1 .. Len(parts) |-> EncPart(parts[i])])

-----------------------------------------------------------------------------
(* The files the parsers are run on.  A source holds the bytes and what is  *)
(* known of how they were built: the family of record, the leading tag, the *)
(* permission field, whether everything after the tag follows the wire      *)
(* format (wf), and whether the bytes are a proper prefix of such a file.   *)

LongNameLen == 128

\* the Permissions bits of data.rs: DEFAULT_PERMISSIONS
DefaultPermissionBits == {0, 1, 2, 3, 8, 9, 10, 12, 22, 23, 24, 25, 26}

CreatorBits == {0, 5, 33}
PermSamples == { {}, DefaultPermissionBits, {0, 40}, {63}, 0 .. 63 }

Ascii(n, c) == [i \in 1 .. n |-> c]
ShortNames == { <<>>, <<80, 49>> }
LongName == Ascii(LongNameLen, 97)

MolSalt == [atoms |-> << <<1, Hex(0, 0)>> >>, bonds |-> <<>>]
MolPair == [atoms |-> << <<1, Hex(0, 0)>>, <<5, Hex(-1, 1)>> >>,
            bonds |-> << <<1, Hex(0, 0), Hex(-1, 1)>> >>]
MolDangling == [atoms |-> << <<4, Hex(0, 0)>> >>,
                bonds |-> << <<1, Hex(0, 0), Hex(1, 0)>> >>]

Source(family, wf, tag, perm, bytes) ==
    [family |-> family, wf |-> wf, truncated |-> FALSE, tag |-> tag,
     perm |-> perm, bytes |-> bytes]

PuzzleSource(tag, name, perm, reagents, products) ==
    Source("puzzle", TRUE, tag, perm,
           EncPuzzle(tag, name, CreatorBits, perm, reagents, products, 1))

\* the proper prefixes of a source's bytes
Prefixes(src) ==
    { [src EXCEPT !.bytes = SubSeq(@, 1, k), !.truncated = TRUE, !.wf = FALSE]
        : k \in 0 .. Len(src.bytes) - 1 }

\* a puzzle whose reagent list has the count -1
NegativeCountPuzzle ==
    Source("puzzle", FALSE, 3, {},
           EncInt(3) \o EncStr(<<80>>) \o EncLong(CreatorBits) \o EncLong({})
           \o EncInt(-1))

\* a puzzle whose reagent list has the count 1000 and no element
OversizedCountPuzzle ==
    [Source("puzzle", FALSE, 3, {},
            EncInt(3) \o EncStr(<<80>>) \o EncLong(CreatorBits) \o EncLong({})
            \o EncInt(1000)) EXCEPT !.truncated = TRUE]

PuzzleSources ==
    { PuzzleSource(tag, name, perm, reagents, products) :
        tag \in {3, 7, 0}, name \in ShortNames, perm \in PermSamples,
        reagents \in { <<>>, <<MolSalt>>, <<MolPair, MolSalt>> },
        products \in { <<MolSalt>>, <<MolDangling>> } }
    \cup { PuzzleSource(3, LongName, DefaultPermissionBits, <<MolSalt>>, <<MolSalt>>) }
    \cup Prefixes(PuzzleSource(3, <<80, 49>>, {63}, <<MolPair>>, <<MolSalt>>))
    \cup { NegativeCountPuzzle, OversizedCountPuzzle }

MetricVals == {-1, 258}
MetricIdx == [i \in 1 .. 4 |-> {i - 1, i % 4}]

MetricsSamples ==
    { EncMetrics(tag, <<>>, <<>>) : tag \in {0, 1, 5, -1} }
    \cup { EncMetrics(4, idx, val) :
             idx \in [1 .. 4 -> 0 .. 3] \cap { f \in [1 .. 4 -> 0 .. 3] :
                                               \A i \in 1 .. 4 : f[i] \in MetricIdx[i] },
             val \in [1 .. 4 -> MetricVals] }

PartSample(name, index, instructions, hexes) ==
    [name |-> name, one |-> 1, pos |-> Hex(2, -1), arm_length |-> 1,
     rotation |-> -7, index |-> index, instructions |-> instructions,
     hexes |-> hexes, arm_number |-> 0, conduit |-> 100]

StrArm1 == <<97, 114, 109, 49>>
StrInput == <<105, 110, 112, 117, 116>>
StrOutStd == <<111, 117, 116, 45, 115, 116, 100>>

\* part lists that follow the wire format
PartsSamples ==
    { <<>>,
      << PartSample(StrArm1, 0, << <<0, 71>>, <<1, 82>>, <<3, 103>> >>, <<>>) >>,
      << PartSample(StrInput, 0, <<>>, <<>>), PartSample(StrOutStd, 0, <<>>, <<>>) >>,
      << PartSample(StrTrack, 0, <<>>, <<Hex(0, 0), Hex(1, 0)>>),
         PartSample(StrPipe, 0, <<>>, <<Hex(0, 0)>>) >> }

\* part lists with a type name, or an instruction byte, that is in no table
BadPartsSamples ==
    { << PartSample(<<122, 122>>, 0, <<>>, <<>>) >>,
      << PartSample(StrArm1, 0, << <<0, 63>> >>, <<>>) >> }

SolutionSource(wf, tag, name, metrics, parts) ==
    Source("solution", wf, tag, {},
           EncSolution(tag, <<80, 48, 48, 55>>, name, metrics, parts))

FullMetrics == EncMetrics(4, <<0, 1, 2, 3>>, <<10, 20, 30, 40>>)

SolutionSources ==
    { SolutionSource(TRUE, tag, name, metrics, <<>>) :
        tag \in {7, 3}, name \in ShortNames,
        metrics \in { m \in MetricsSamples : m = EncMetrics(0, <<>>, <<>>)
                        \/ \E val \in [1 .. 4 -> MetricVals] :
                               m = EncMetrics(4, <<0, 1, 2, 3>>, val) } }
    \cup { SolutionSource(FALSE, tag, name, metrics, <<>>) :
        tag \in {7, 3}, name \in ShortNames,
        metrics \in { m \in MetricsSamples : m # EncMetrics(0, <<>>, <<>>)
                        /\ \A val \in [1 .. 4 -> MetricVals] :
                               m # EncMetrics(4, <<0, 1, 2, 3>>, val) } }
    \cup { SolutionSource(TRUE, 7, <<83>>, metrics, parts) :
             metrics \in { EncMetrics(0, <<>>, <<>>), FullMetrics },
             parts \in PartsSamples }
    \cup { SolutionSource(FALSE, 7, <<83>>, FullMetrics, parts) :
             parts \in BadPartsSamples }
    \cup { SolutionSource(TRUE, 7, LongName, FullMetrics, <<>>) }
    \cup Prefixes(SolutionSource(TRUE, 7, <<83, 49>>, FullMetrics,
                    << PartSample(StrTrack, 0, << <<0, 71>> >>, <<Hex(0, 0)>>) >>))

ParseSources == PuzzleSources \cup SolutionSources

-----------------------------------------------------------------------------
(* Specification SpecParse: parse_puzzle or parse_solution run on a file,   *)
(* one field read per step.                                                 *)

Running == [st |-> "running", msg |-> "", v |-> None]

\* no local read yet.  metrics_st and metrics_in record whether the metrics
\* were read and the bytes the parser stood at when it read them.
NoLocals ==
    [f \in {"tag", "name", "creator", "permissions", "reagents", "products",
            "puzzle_id", "metrics"} |-> None]
    @@ [metrics_st |-> "unread", metrics_in |-> <<>>]

ParseInit ==
    /\ pSrc \in ParseSources
    /\ pKind \in {"puzzle", "solution"}
    /\ pPc = "tag"
    /\ pData = pSrc.bytes
    /\ pAcc = NoLocals
    /\ pRes = Running
    /\ HexIdle /\ ColIdle /\ SimIdle /\ MolIdle /\ BondIdle /\ RotIdle

\* `return Err(..)`, the `?` of a failed read, or the panic of a read
Return(st, msg, v) ==
    /\ pPc' = "done"
    /\ pRes' = [st |-> st, msg |-> msg, v |-> v]
    /\ UNCHANGED <<pData, pAcc>>

\* `let field = r?;`
Bind(r, field, next) ==
    IF r.st = "ok"
    THEN /\ pData' = r.d
         /\ pAcc' = [pAcc EXCEPT ![field] = r.v]
         /\ pPc' = next
         /\ pRes' = pRes
    ELSE Return(r.st, r.msg, None)

\* parse_puzzle: `if parser.parse_int()? != 3 { return Err(..) }`
PuzzleTag ==
    /\ pKind = "puzzle" /\ pPc = "tag"
    /\ LET r == parse_int(pData)
       IN  IF r.st = "ok" /\ r.v # 3
           THEN Return("err", "not an opus magnum puzzle", None)
           ELSE Bind(r, "tag", "name")
    /\ UNCHANGED <<pSrc, pKind>> /\ UNCHANGED notParseVars

\* parse_puzzle: `let name = parser.parse_string()?;`
PuzzleName ==
    /\ pKind = "puzzle" /\ pPc = "name"
    /\ Bind(parse_string(pData), "name", "creator")
    /\ UNCHANGED <<pSrc, pKind>> /\ UNCHANGED notParseVars

\* parse_puzzle: `let _creator = parser.parse_long()?;`
PuzzleCreator ==
    /\ pKind = "puzzle" /\ pPc = "creator"
    /\ Bind(parse_long(pData), "creator", "permissions")
    /\ UNCHANGED <<pSrc, pKind>> /\ UNCHANGED notParseVars

\* parse_puzzle: `let _permissions = parser.parse_long()?;`
PuzzlePermissions ==
    /\ pKind = "puzzle" /\ pPc = "permissions"
    /\ Bind(parse_long(pData), "permissions", "reagents")
    /\ UNCHANGED <<pSrc, pKind>> /\ UNCHANGED notParseVars

\* parse_puzzle: `let reagents = parser.parse_list(|s| s.parse_molecule())?;`
PuzzleReagents ==
    /\ pKind = "puzzle" /\ pPc = "reagents"
    /\ Bind(parse_list(pData, "molecule"), "reagents", "products")
    /\ UNCHANGED <<pSrc, pKind>> /\ UNCHANGED notParseVars

\* parse_puzzle: `let products = parser.parse_list(|s| s.parse_molecule())?;`
PuzzleProducts ==
    /\ pKind = "puzzle" /\ pPc = "products"
    /\ Bind(parse_list(pData, "molecule"), "products", "multiplier")
    /\ UNCHANGED <<pSrc, pKind>> /\ UNCHANGED notParseVars

\* the Puzzle that parse_puzzle builds: the struct literal names these five
\* fields, and neither creator_id nor permissions
PuzzleValue(product_multiplier) ==
    [name |-> pAcc.name, reagents |-> pAcc.reagents, products |-> pAcc.products,
     product_multiplier |-> product_multiplier, production_info |-> NoneOpt]

\* parse_puzzle: `let product_multiplier = parser.parse_int()?; Ok(Puzzle{..})`
PuzzleMultiplier ==
    /\ pKind = "puzzle" /\ pPc = "multiplier"
    /\ LET r == parse_int(pData)
       IN  IF r.st = "ok"
           THEN /\ pData' = r.d
                /\ pPc' = "done"
                /\ pRes' = [st |-> "ok", msg |-> "", v |-> PuzzleValue(r.v)]
                /\ pAcc' = pAcc
           ELSE Return(r.st, r.msg, None)
    /\ UNCHANGED <<pSrc, pKind>> /\ UNCHANGED notParseVars

\* parse_solution: `if parser.parse_int()? != 7 { return Err(..) }`
SolutionTag ==
    /\ pKind = "solution" /\ pPc = "tag"
    /\ LET r == parse_int(pData)
       IN  IF r.st = "ok" /\ r.v # 7
           THEN Return("err", "not an opus magnum solution", None)
           ELSE Bind(r, "tag", "puzzle_id")
    /\ UNCHANGED <<pSrc, pKind>> /\ UNCHANGED notParseVars

\* parse_solution: `let _puzzle_id = parser.parse_string()?;`
SolutionPuzzleId ==
    /\ pKind = "solution" /\ pPc = "puzzle_id"
    /\ Bind(parse_string(pData), "puzzle_id", "name")
    /\ UNCHANGED <<pSrc, pKind>> /\ UNCHANGED notParseVars

\* parse_solution: `let name = parser.parse_string()?;`
SolutionName ==
    /\ pKind = "solution" /\ pPc = "name"
    /\ Bind(parse_string(pData), "name", "metrics")
    /\ UNCHANGED <<pSrc, pKind>> /\ UNCHANGED notParseVars

\* parse_solution: `let metrics = match parser.parse_int()? { .. };`
SolutionMetrics ==
    /\ pKind = "solution" /\ pPc = "metrics"
    /\ LET r == parse_metrics(pData)
       IN  IF r.st = "ok"
           THEN /\ pData' = r.d
                /\ pAcc' = [pAcc EXCEPT !.metrics = r.v, !.metrics_st = "ok",
                                        !.metrics_in = pData]
                /\ pPc' = "parts"
                /\ pRes' = pRes
           ELSE /\ pPc' = "done"
                /\ pRes' = [st |-> r.st, msg |-> r.msg, v |-> None]
                /\ pAcc' = [pAcc EXCEPT !.metrics_st = "failed", !.metrics_in = pData]
                /\ pData' = pData
    /\ UNCHANGED <<pSrc, pKind>> /\ UNCHANGED notParseVars

\* parse_solution: `let parts = parser.parse_list(..)?; Ok(Solution{..})`
SolutionParts ==
    /\ pKind = "solution" /\ pPc = "parts"
    /\ LET r == parse_list(pData, "part")
       IN  IF r.st = "ok"
           THEN /\ pData' = r.d
                /\ pPc' = "done"
                /\ pRes' = [st |-> "ok", msg |-> "",
                            v |-> [name |-> pAcc.name, metrics |-> pAcc.metrics,
                                   parts |-> r.v]]
                /\ pAcc' = pAcc
           ELSE Return(r.st, r.msg, None)
    /\ UNCHANGED <<pSrc, pKind>> /\ UNCHANGED notParseVars

ParseNext ==
    \/ PuzzleTag \/ PuzzleName \/ PuzzleCreator \/ PuzzlePermissions
    \/ PuzzleReagents \/ PuzzleProducts \/ PuzzleMultiplier
    \/ SolutionTag \/ SolutionPuzzleId \/ SolutionName
    \/ SolutionMetrics \/ SolutionParts

SpecParse == ParseInit /\ [][ParseNext]_vars

-----------------------------------------------------------------------------
(* Claims about the codec *)

Finished == pPc = "done"

\* C2: parse_puzzle and parse_solution end by returning a value or an
\* error, never by panicking, and on a file cut short (a proper prefix of a
\* well-formed file of the parser's own kind, or a list count with no
\* elements behind it) the result is an error.
C2_NeverPanics ==
    Finished =>
        /\ pRes.st \in {"ok", "err"}
        /\ (pSrc.truncated /\ pSrc.family = pKind) => pRes.st = "err"

\* the 32-bit little-endian integer at word k of d
IntAt(d, k) == I32FromLe(SubSeq(d, 4 * k + 1, 4 * k + 4))

HasPrefix(d, p) == Len(d) >= Len(p) /\ SubSeq(d, 1, Len(p)) = p

\* C5: where parse_solution reads the metrics, a tag of 0 decodes to no
\* metrics; a tag of 4 followed by the pairs (0,C)(1,K)(2,A)(3,I) decodes to
\* Metrics{cycles=C, cost=K, area=A, instructions=I}; any other tag, and any
\* pair whose index differs from its place 0,1,2,3, is an error.
C5_MetricsDecoding ==
    LET d == pAcc.metrics_in
        tag == IntAt(d, 0)
        InOrder == Len(d) >= 36 /\ \A i \in 0 .. 3 : IntAt(d, 1 + 2 * i) = i
    IN  (pKind = "solution" /\ pAcc.metrics_st # "unread" /\ Len(d) >= 4) =>
            /\ tag = 0 =>
                  pAcc.metrics_st = "ok" /\ pAcc.metrics = NoneOpt
            /\ (tag = 4 /\ InOrder) =>
                  /\ pAcc.metrics_st = "ok"
                  /\ pAcc.metrics =
                        Some([cycles |-> IntAt(d, 2), cost |-> IntAt(d, 4),
                              area |-> IntAt(d, 6), instructions |-> IntAt(d, 8)])
            /\ (tag \notin {0, 4} \/ (tag = 4 /\ ~InOrder)) =>
                  pAcc.metrics_st = "failed" /\ Finished /\ pRes.st = "err"

\* metrics with different numbers in all four places have been decoded
C5_Witness ==
    /\ pKind = "solution"
    /\ pAcc.metrics_st = "ok"
    /\ HasPrefix(pAcc.metrics_in, EncMetrics(4, <<0, 1, 2, 3>>, <<10, 20, 30, 40>>))
    /\ pAcc.metrics = Some([cycles |-> 10, cost |-> 20, area |-> 30,
                            instructions |-> 40])

\* C7: parse_puzzle returns an error whenever the leading tag is not 3 and
\* parse_solution whenever it is not 7; with the right tag and a well-formed
\* rest of the file each returns a value.
C7_TagDecides ==
    Finished =>
        /\ (pKind = "puzzle" /\ pSrc.tag # 3) => pRes.st = "err"
        /\ (pKind = "solution" /\ pSrc.tag # 7) => pRes.st = "err"
        /\ (pKind = "puzzle" /\ pSrc.family = "puzzle" /\ pSrc.tag = 3 /\ pSrc.wf)
              => pRes.st = "ok"
        /\ (pKind = "solution" /\ pSrc.family = "solution" /\ pSrc.tag = 7 /\ pSrc.wf)
              => pRes.st = "ok"

\* C8: the permission mask of the Puzzle that parse_puzzle returns equals,
\* bit for bit, the 64-bit permission field of the puzzle record.
C8_PermissionsKept ==
    (Finished /\ pKind = "puzzle" /\ pSrc.family = "puzzle" /\ pRes.st = "ok") =>
        /\ "permissions" \in DOMAIN pRes.v
        /\ pRes.v.permissions = pSrc.perm

-----------------------------------------------------------------------------
(* The collision test, sim/collision.rs.  A Vector2 holds two f32; every    *)
(* coordinate met here is a whole number below 2^24, which f32 holds        *)
(* exactly, so the arithmetic is done on integers.  Only the movement       *)
(* Movement::Stay is modelled.                                              *)

HEX_WIDTH == 82
HEX_HEIGHT == 71

Vector2(x, y) == [x |-> x, y |-> y]

\* Vector2::from_hex_index; 0.5 * r * HEX_WIDTH is r * HEX_WIDTH / 2, a
\* whole number
from_hex_index(h) ==
    Vector2(h.q * HEX_WIDTH + (h.r * HEX_WIDTH) \div 2, h.r * HEX_HEIGHT)

\* impl Sub for Vector2
VecSub(a, b) == Vector2(a.x - b.x, a.y - b.y)

\* Vector2::length2: `self.x * self.x + self.y + self.y`
length2(v) == v.x * v.x + v.y + v.y

\* Vector2::dist2, which collides calls and collision.rs does not define:
\* the squared distance, as dist is `(self - other).length()`
dist2(a, b) == length2(VecSub(a, b))

ColliderTypes == {"Atom", "ArmBase", "ArmGripper", "ProducedAtom", "ChamberWall"}

\* ColliderType::radius
radius(ty) ==
    CASE ty = "Atom" -> 29
      [] ty = "ArmBase" -> 20
      [] ty = "ArmGripper" -> 20
      [] ty = "ProducedAtom" -> 15
      [] ty = "ChamberWall" -> 20

\* radius_with testing only whether self is the ArmGripper
radius_with_SelfOnly(self, other) ==
    IF self = "ArmGripper" /\ other # "ChamberWall"
    THEN NoneOpt
    ELSE Some(radius(self) + radius(other))

\* ColliderType::radius_with
radius_with(self, other) ==
    IF \/ self = "ArmGripper" /\ other # "ChamberWall"
       \/ other = "ArmGripper" /\ self # "ChamberWall"
    THEN NoneOpt
    ELSE Some(radius(self) + radius(other))

\* Movement::Stay
Stay(at) == [kind |-> "Stay", at |-> at]

\* Movement::pos_at, for Movement::Stay
pos_at(movement, time) == from_hex_index(movement.at)

\* collides: the loops return true at the first pair found, false when
\* there is none
collides(colliders, steps) ==
    \E i \in 0 .. steps :
        LET objs == [c \in 1 .. Len(colliders) |->
                        <<pos_at(colliders[c].movement, <<i, steps>>), colliders[c].ty>>]
        IN  \E l \in 1 .. Len(objs) : \E r \in 1 .. Len(objs) :
                /\ l # r
                /\ radius_with(objs[l][2], objs[r][2]).some
                /\ LET rad == radius_with(objs[l][2], objs[r][2]).v
                   IN  dist2(objs[l][1], objs[r][1]) < rad * rad

-----------------------------------------------------------------------------
(* Specification SpecCollide: collides run on two stationary colliders.     *)

ColCoordMax == 1
MaxSteps == 2

ColPoints == {Hex(q, r) : q \in -ColCoordMax .. ColCoordMax,
                          r \in -ColCoordMax .. ColCoordMax}

ColInit ==
    /\ colIn \in { << [ty |-> t1, movement |-> Stay(a1)],
                      [ty |-> t2, movement |-> Stay(a2)] >> :
                     t1 \in ColliderTypes, t2 \in ColliderTypes,
                     a1 \in ColPoints, a2 \in ColPoints }
    /\ colSteps \in 0 .. MaxSteps
    /\ colDone = FALSE
    /\ colRes = FALSE
    /\ HexIdle /\ ParseIdle /\ SimIdle /\ MolIdle /\ BondIdle /\ RotIdle

Collides ==
    /\ ~colDone
    /\ colRes' = collides(colIn, colSteps)
    /\ colDone' = TRUE
    /\ UNCHANGED <<colIn, colSteps>> /\ UNCHANGED notColVars

ColNext == Collides

SpecCollide == ColInit /\ [][ColNext]_vars

\* the squared Cartesian distance of two hex positions projected by
\* x = 82*q + 41*r, y = 71*r
ProjectedDist2(a, b) ==
    LET dx == (82 * a.q + 41 * a.r) - (82 * b.q + 41 * b.r)
        dy == 71 * a.r - 71 * b.r
    IN  dx * dx + dy * dy

\* C3: for two stationary Atom colliders and a step count of at least 1,
\* collides returns true exactly when the Cartesian distance of the two
\* projected positions is below 58.
C3_AtomsCollideBelow58 ==
    (/\ colDone
     /\ colSteps >= 1
     /\ colIn[1].ty = "Atom" /\ colIn[2].ty = "Atom")
    => (colRes <=> ProjectedDist2(colIn[1].movement.at, colIn[2].movement.at) < 58 * 58)

-----------------------------------------------------------------------------
(* Puzzle::clean_solution and the simulation, data.rs and sim/mod.rs.       *)
(* A Molecule is [atoms, bonds]: atoms a function from positions to atom    *)
(* names, bonds a set of [start, end, ty].  Of a Part the simulation reads  *)
(* ty, pos, rotation and index; the model carries these four fields.        *)

PartTypes == {"Input", "Output", "PolymerOutput",
              "Arm", "BiArm", "TriArm", "HexArm", "PistonArm",
              "Track", "Berlo",
              "Equilibrium", "Bonding", "MultiBonding", "Unbonding",
              "Calcification", "Projection", "Purification",
              "Duplication", "Animismus", "Unification", "Dispersion",
              "TriplexBonding", "Disposal", "Conduit"}

\* the three types clean_solution checks for a negative index
IsIO(ty) == ty = "Input" \/ ty = "Output" \/ ty = "PolymerOutput"

\* `(part.index as usize) >= self.reagents.len()`, with an index that is
\* one past the end let through
InputOutOfBounds_OnePast(part, puzzle) ==
    part.ty = "Input" /\ part.index > Len(puzzle.reagents)

\* `part.ty == PartType::Input && (part.index as usize) >= self.reagents.len()`;
\* as usize, a negative index is above every length
InputOutOfBounds(part, puzzle) ==
    part.ty = "Input" /\ (part.index < 0 \/ part.index >= Len(puzzle.reagents))

\* the same test for Output and PolymerOutput against the products
OutputOutOfBounds(part, puzzle) ==
    /\ part.ty = "Output" \/ part.ty = "PolymerOutput"
    /\ part.index < 0 \/ part.index >= Len(puzzle.products)

RECURSIVE clean_loop(_, _, _)
\* the loop of clean_solution over solution.parts, from part i on
clean_loop(puzzle, solution, i) ==
    IF i > Len(solution.parts) THEN Ok(solution, <<>>)
    ELSE LET part == solution.parts[i]
         IN  IF IsIO(part.ty) /\ part.index < 0
             THEN Err("solution contains input/output with negative index")
             ELSE IF InputOutOfBounds(part, puzzle)
             THEN Err("solution contains input with out-of-bounds index")
             ELSE IF OutputOutOfBounds(part, puzzle)
             THEN Err("solution contains output with out-of-bounds index")
             ELSE clean_loop(puzzle, solution, i + 1)

\* Puzzle::clean_solution: the loop, then a clone of the solution
clean_solution(puzzle, solution) == clean_loop(puzzle, solution, 1)

\* Rust's % on integers: the remainder takes the sign of the dividend
RustRem(a, b) == IF a >= 0 THEN a % b ELSE -((-a) % b)

\* HexRotation::from_signed
from_signed(turns) == RustRem(RustRem(turns, 6) + 6, 6)

\* `list[index as usize]`: the element, or the panic of an index out of bounds
IndexList(list, index) ==
    IF index >= 0 /\ index < Len(list) THEN Ok(list[index + 1], <<>>)
    ELSE Panic("index out of bounds")

\* SimPartType::from_solution_part
SimPartType_from_solution_part(part, puzzle) ==
    CASE part.ty = "Input" ->
            LET m == IndexList(puzzle.reagents, part.index)
            IN  IF m.st = "ok" THEN Ok([kind |-> "Input", m |-> m.v], <<>>) ELSE m
      [] part.ty = "Output" ->
            LET m == IndexList(puzzle.products, part.index)
            IN  IF m.st = "ok"
                THEN Ok([kind |-> "Output", m |-> m.v, outputs |-> 0], <<>>)
                ELSE m
      [] part.ty \in {"Arm", "BiArm", "TriArm", "HexArm", "PistonArm"} ->
            Ok([kind |-> "Arms"], <<>>)
      [] part.ty \in {"Track", "Bonding", "MultiBonding", "Unbonding",
                      "Calcification", "Animismus", "Projection",
                      "Purification", "Conduit"} ->
            Ok([kind |-> part.ty], <<>>)
      [] OTHER -> Err("unknown part type")

\* SimPart::from_solution_part with `rotation: part.rotation` kept as read
SimPart_from_solution_part_RawRotation(part, puzzle) ==
    LET ty == SimPartType_from_solution_part(part, puzzle)
    IN  IF ty.st = "ok"
        THEN Ok([pos |-> part.pos, rotation |-> part.rotation, ty |-> ty.v], <<>>)
        ELSE ty

\* SimPart::from_solution_part
SimPart_from_solution_part(part, puzzle) ==
    LET ty == SimPartType_from_solution_part(part, puzzle)
    IN  IF ty.st = "ok"
        THEN Ok([pos |-> part.pos, rotation |-> from_signed(part.rotation),
                 ty |-> ty.v], <<>>)
        ELSE ty

\* the list indexings SimPartType::from_solution_part makes for a part
ReadsOf(part, puzzle) ==
    CASE part.ty = "Input" ->
            {[list |-> "reagents", index |-> part.index, len |-> Len(puzzle.reagents)]}
      [] part.ty = "Output" ->
            {[list |-> "products", index |-> part.index, len |-> Len(puzzle.products)]}
      [] OTHER -> {}

\* Molecule::contains_pos
contains_pos(m, pos) == pos \in DOMAIN m.atoms

\* SimMolecule::contains_pos
SimMolecule_contains_pos(self, pos) == contains_pos(self.layout, HexSub(pos, self.pos))

\* SimMolecule::atom_at
SimMolecule_atom_at(self, pos) == self.layout.atoms[HexSub(pos, self.pos)]

\* SimMolecule::is
SimMolecule_is(self, m) ==
    /\ Cardinality(DOMAIN self.layout.atoms) = Cardinality(DOMAIN m.atoms)
    /\ self.layout.bonds = m.bonds
    /\ \A key \in DOMAIN m.atoms :
          /\ SimMolecule_contains_pos(self, key)
          /\ SimMolecule_atom_at(self, key) = m.atoms[key]

\* Sim::lookup_atom: the index of the first molecule that contains pos,
\* 0 when there is none
lookup_atom(molecules, pos) ==
    IF \E k \in 1 .. Len(molecules) : SimMolecule_contains_pos(molecules[k], pos)
    THEN CHOOSE k \in 1 .. Len(molecules) :
            /\ SimMolecule_contains_pos(molecules[k], pos)
            /\ \A j \in 1 .. k - 1 : ~SimMolecule_contains_pos(molecules[j], pos)
    ELSE 0

\* SimPart::tick: "ok" when the call returns, "panic" when it reaches
\* todo!() or panic!("a"); a call that returns changes neither the part
\* nor the Sim
tick(self, molecules) ==
    CASE self.ty.kind = "Input" -> "ok"
      [] self.ty.kind = "Output" ->
            LET k == lookup_atom(molecules, self.pos)
            IN  IF k # 0 /\ SimMolecule_is(molecules[k], self.ty.m)
                THEN "panic" ELSE "ok"
      [] OTHER -> "panic"

-----------------------------------------------------------------------------
(* Sim::create, step by step: clean_solution, then one                      *)
(* SimPart::from_solution_part per part of sol_clean (collect stops at the  *)
(* first error), then the Sim with no molecules.                            *)

SimRunning == [st |-> "running", msg |-> "", at |-> ""]
SimFailed(st, msg, at) == [st |-> st, msg |-> msg, at |-> at]

\* `let sol_clean = puzzle.clean_solution(solution)?`
SimClean ==
    /\ simPc = "clean"
    /\ LET r == clean_solution(simPuzzle, simSolution)
       IN  IF r.st = "ok"
           THEN /\ simPc' = "build"
                /\ simClean' = r.v
                /\ simRes' = simRes
           ELSE /\ simPc' = "err"
                /\ simClean' = simClean
                /\ simRes' = SimFailed("err", r.msg, "clean_solution")
    /\ UNCHANGED <<simPuzzle, simSolution, simParts, simMolecules, simReads, simTicks>>
    /\ UNCHANGED notSimVars

\* one turn of `sol_clean.parts.iter().map(...)`
SimBuildPart ==
    /\ simPc = "build"
    /\ Len(simParts) < Len(simClean.parts)
    /\ LET part == simClean.parts[Len(simParts) + 1]
           r == SimPart_from_solution_part(part, simPuzzle)
       IN  /\ simReads' = simReads \cup ReadsOf(part, simPuzzle)
           /\ IF r.st = "ok"
              THEN /\ simParts' = Append(simParts, r.v)
                   /\ UNCHANGED <<simPc, simRes>>
              ELSE /\ simPc' = r.st
                   /\ simRes' = SimFailed(r.st, r.msg, "from_solution_part")
                   /\ UNCHANGED simParts
    /\ UNCHANGED <<simPuzzle, simSolution, simClean, simMolecules, simTicks>>
    /\ UNCHANGED notSimVars

\* `Ok(Sim{ parts: ..., molecules: Vec::new() })`
SimCollect ==
    /\ simPc = "build"
    /\ Len(simParts) = Len(simClean.parts)
    /\ simPc' = "ready"
    /\ simMolecules' = <<>>
    /\ UNCHANGED <<simPuzzle, simSolution, simClean, simParts, simRes, simReads, simTicks>>
    /\ UNCHANGED notSimVars

MaxTicks == 3

\* SimPart::tick on one part of the Sim
SimTick ==
    /\ simPc = "ready"
    /\ Len(simTicks) < MaxTicks
    /\ \E i \in 1 .. Len(simParts) :
          /\ simTicks' = Append(simTicks, i)
          /\ IF tick(simParts[i], simMolecules) = "ok"
             THEN UNCHANGED <<simPc, simRes>>
             ELSE /\ simPc' = "panic"
                  /\ simRes' = SimFailed("panic", "not implemented", "tick")
    /\ UNCHANGED <<simPuzzle, simSolution, simClean, simParts, simMolecules, simReads>>
    /\ UNCHANGED notSimVars

-----------------------------------------------------------------------------
(* Specification SpecCreate: Sim::create on small puzzles and solutions.    *)

MaxMols == 1
MaxParts == 2

SingleAtom(a) == [atoms |-> (Hex(0, 0) :> a), bonds |-> {}]
MolList(n) == [i \in 1 .. n |-> SingleAtom(AtomNames[i])]

PuzzleOf(reagents, products, permissions) ==
    [reagents |-> reagents, products |-> products,
     product_multiplier |-> 1, permissions |-> permissions]

PartOf(ty, pos, rotation, index) ==
    [ty |-> ty, pos |-> pos, rotation |-> rotation, index |-> index]

CreatePuzzles ==
    {PuzzleOf(MolList(n), MolList(m), perm) :
        n \in 0 .. MaxMols, m \in 0 .. MaxMols,
        perm \in { {}, DefaultPermissionBits, 0 .. 63 }}

\* one part of every type, with rotations below 0, in 0..5 and above 5
AnyTypeParts ==
    {PartOf(ty, Hex(1, -1), rot, i) :
        ty \in PartTypes, rot \in {-7, 2, 13}, i \in {0, MaxMols}}

\* inputs and outputs with every index from -1 to one past the longest
\* list, an arm and a glyph
IndexedParts ==
    {PartOf(ty, Hex(0, 0), 0, i) : ty \in {"Input", "Output"}, i \in -1 .. MaxMols + 1}
    \cup {PartOf("PolymerOutput", Hex(0, 0), 0, -1),
          PartOf("Arm", Hex(2, 0), 1, 0),
          PartOf("TriplexBonding", Hex(0, 2), 0, 0)}

CreateSolutions ==
    {[parts |-> <<p>>] : p \in AnyTypeParts}
    \cup {[parts |-> ps] : ps \in UNION {[1 .. n -> IndexedParts] : n \in 0 .. MaxParts}}

SimInitWith(puzzles, solutions) ==
    /\ simPuzzle \in puzzles
    /\ simSolution \in solutions
    /\ simPc = "clean"
    /\ simClean = None
    /\ simParts = <<>>
    /\ simMolecules = <<>>
    /\ simRes = SimRunning
    /\ simReads = {}
    /\ simTicks = <<>>
    /\ HexIdle /\ ParseIdle /\ ColIdle /\ MolIdle /\ BondIdle /\ RotIdle

CreateInit == SimInitWith(CreatePuzzles, CreateSolutions)

CreateNext == SimClean \/ SimBuildPart \/ SimCollect

SpecCreate == CreateInit /\ [][CreateNext]_vars

-----------------------------------------------------------------------------
(* Specification SpecRun: a Sim is created and its parts are ticked, in     *)
(* any order, up to MaxTicks times.                                         *)

RunAtoms == {"Salt", "Water"}
RunPoints == {Hex(0, 0), Hex(1, 0)}

RunPuzzles ==
    {PuzzleOf(<<SingleAtom(a)>>, <<SingleAtom(b)>>, DefaultPermissionBits) :
        a \in RunAtoms, b \in RunAtoms}

RunParts ==
    {PartOf(ty, pos, 0, 0) : ty \in {"Input", "Output", "Arm"}, pos \in RunPoints}

RunSolutions ==
    {[parts |-> ps] : ps \in UNION {[1 .. n -> RunParts] : n \in 1 .. MaxParts}}

RunInit == SimInitWith(RunPuzzles, RunSolutions)

RunNext == SimClean \/ SimBuildPart \/ SimCollect \/ SimTick

SpecRun == RunInit /\ [][RunNext]_vars

-----------------------------------------------------------------------------
(* Claims about validation and the run.                                     *)

\* a part with an index clean_solution has to refuse: an Input whose index
\* is the reagent count or more, an Input or Output with a negative index,
\* an Output whose index is the product count or more
BadIndex(part, puzzle) ==
    \/ part.ty = "Input" /\ part.index >= Len(puzzle.reagents)
    \/ part.ty \in {"Input", "Output"} /\ part.index < 0
    \/ part.ty = "Output" /\ part.index >= Len(puzzle.products)

HasBadIndex ==
    \E k \in 1 .. Len(simSolution.parts) : BadIndex(simSolution.parts[k], simPuzzle)

\* C4: Sim::create on a solution with an Input index at or above the
\* reagent count, a negative Input or Output index, or an Output index out
\* of range of the products, returns an error from clean_solution; no
\* SimPart is built, no list is indexed, and no tick runs.
C4_BadIndexRejected ==
    HasBadIndex =>
        /\ simPc \in {"clean", "err"}
        /\ simPc = "err" => simRes.st = "err" /\ simRes.at = "clean_solution"
        /\ simParts = <<>>
        /\ simReads = {}
        /\ simTicks = <<>>

C4_Witness ==
    /\ simPc = "err"
    /\ simRes.at = "clean_solution"
    /\ simRes.msg = "solution contains input with out-of-bounds index"
    /\ \E k \in 1 .. Len(simSolution.parts) :
          /\ simSolution.parts[k].ty = "Input"
          /\ simSolution.parts[k].index = Len(simPuzzle.reagents)
    /\ \E k \in 1 .. Len(simSolution.parts) :
          /\ simSolution.parts[k].ty = "Input"
          /\ simSolution.parts[k].index > Len(simPuzzle.reagents)

\* the Permissions flag (its bit number) that enables a part type, 64 for
\* the types no flag gates; data.rs names the flags and maps no part type
\* to them
PermissionBitOf(ty) ==
    CASE ty = "Arm" -> 0
      [] ty \in {"BiArm", "TriArm", "HexArm"} -> 1
      [] ty = "PistonArm" -> 2
      [] ty = "Track" -> 3
      [] ty = "Bonding" -> 8
      [] ty = "Unbonding" -> 9
      [] ty = "MultiBonding" -> 10
      [] ty = "TriplexBonding" -> 11
      [] ty = "Calcification" -> 12
      [] ty = "Duplication" -> 13
      [] ty = "Projection" -> 14
      [] ty = "Purification" -> 15
      [] ty = "Animismus" -> 16
      [] ty = "Disposal" -> 17
      [] ty \in {"Unification", "Dispersion"} -> 18
      [] ty = "Berlo" -> 28
      [] OTHER -> 64

Forbidden(part, puzzle) ==
    /\ PermissionBitOf(part.ty) # 64
    /\ PermissionBitOf(part.ty) \notin puzzle.permissions

\* C9: a solution with a part whose type the puzzle's permission mask
\* forbids is rejected by clean_solution: Sim::create neither goes on to
\* build parts nor returns a Sim.
C9_ForbiddenRejected ==
    (\E k \in 1 .. Len(simSolution.parts) : Forbidden(simSolution.parts[k], simPuzzle))
    => simPc \in {"clean", "err"}

\* the C6 run: one single-atom reagent, the same molecule as product,
\* multiplier 1, and an Input and an Output at one position
C6Run ==
    /\ Len(simPuzzle.reagents) = 1 /\ Len(simPuzzle.products) = 1
    /\ simPuzzle.reagents[1] = simPuzzle.products[1]
    /\ Cardinality(DOMAIN simPuzzle.reagents[1].atoms) = 1
    /\ simPuzzle.product_multiplier = 1
    /\ Len(simSolution.parts) = 2
    /\ {simSolution.parts[1].ty, simSolution.parts[2].ty} = {"Input", "Output"}
    /\ simSolution.parts[1].pos = simSolution.parts[2].pos
    /\ simSolution.parts[1].index = 0 /\ simSolution.parts[2].index = 0

TickedKind(k) == simParts[simTicks[k]].ty.kind

InputTicked == \E k \in 1 .. Len(simTicks) : TickedKind(k) = "Input"

OutputTickedAfterInput ==
    \E j \in 1 .. Len(simTicks) : \E k \in j + 1 .. Len(simTicks) :
        TickedKind(j) = "Input" /\ TickedKind(k) = "Output"

\* every Output has completed the puzzle's multiplied count
Succeeded ==
    /\ simPc = "ready"
    /\ \A i \in 1 .. Len(simParts) :
          simParts[i].ty.kind = "Output"
          => simParts[i].ty.outputs >= simPuzzle.product_multiplier

\* a copy of the reagent lies at the position of the Input
ReagentPlaced ==
    \E k \in 1 .. Len(simMolecules) :
        /\ simMolecules[k].layout = simPuzzle.reagents[1]
        /\ simMolecules[k].pos = simSolution.parts[1].pos

\* C6: in the C6 run nothing fails or panics, the first tick of the Input
\* puts a copy of the reagent at its position, and once the Output has been
\* ticked after the Input the run has Succeeded.
C6_RunSucceeds ==
    (C6Run /\ simPc \notin {"clean", "build"}) =>
        /\ simPc = "ready"
        /\ InputTicked => (ReagentPlaced \/ Succeeded)
        /\ OutputTickedAfterInput => Succeeded

-----------------------------------------------------------------------------
(* Molecule::mapped_positions, translated and rotated, data.rs.             *)
(* next_atoms is filled in the iteration order of a HashMap, which is not   *)
(* fixed: when f sends two atom positions to one, either atom may be the    *)
(* one that stays.  mapped_positions is therefore the set of Molecules the  *)
(* call may return (one Molecule when f is injective on the atoms).         *)

\* the bond with its start mapped and its end left where it was
next_bond_EndUnmoved(bond, start, end) ==
    [ty |-> bond.ty, start |-> start, end |-> bond.end]

\* `Bond{ start: f(bond.start), end: f(bond.end), ty: bond.ty }`, given
\* f(bond.start) and f(bond.end)
next_bond(bond, start, end) == [ty |-> bond.ty, start |-> start, end |-> end]

\* the positions f is applied to: the atom keys and the bond ends
Positions(self) ==
    DOMAIN self.atoms \cup {b.start : b \in self.bonds} \cup {b.end : b \in self.bonds}

\* Molecule::mapped_positions; the closure f is given as its graph on
\* Positions(self)
mapped_positions(self, f) ==
    LET keys == {f[pos] : pos \in DOMAIN self.atoms}
        From(k) == {pos \in DOMAIN self.atoms : f[pos] = k}
        Picks == {pick \in [keys -> DOMAIN self.atoms] :
                     \A k \in keys : pick[k] \in From(k)}
    IN  {[atoms |-> [k \in keys |-> self.atoms[pick[k]]],
          bonds |-> {next_bond(b, f[b.start], f[b.end]) : b \in self.bonds}] :
            pick \in Picks}

\* Molecule::translated
translated(self, by) ==
    mapped_positions(self, [pos \in Positions(self) |-> HexAdd(pos, by)])

\* Molecule::rotated
Molecule_rotated(self, around, by) ==
    mapped_positions(self, [pos \in Positions(self) |-> rotated(pos, around, by)])

-----------------------------------------------------------------------------
(* Specification SpecMol: parse_molecule reads a Molecule from bytes, then  *)
(* up to MaxTransforms transforms are applied to it.                        *)

MaxTransforms == 2
MolCoordMax == 1

MolPoints == {Hex(q, r) : q \in -MolCoordMax .. MolCoordMax,
                          r \in -MolCoordMax .. MolCoordMax}

\* a chain of three atoms with a normal and a triplex bond
MolChain == [atoms |-> << <<1, Hex(0, 0)>>, <<2, Hex(1, 0)>>, <<3, Hex(1, -1)>> >>,
             bonds |-> << <<1, Hex(0, 0), Hex(1, 0)>>, <<14, Hex(1, 0), Hex(1, -1)>> >>]

\* two atoms and a bond between two positions that hold none
MolAdrift == [atoms |-> << <<1, Hex(0, 0)>>, <<2, Hex(1, 0)>> >>,
              bonds |-> << <<1, Hex(-1, 0), Hex(0, 1)>> >>]

\* an atom byte that names no atom
MolBadAtom == [atoms |-> << <<17, Hex(0, 0)>> >>, bonds |-> <<>>]

MolSources ==
    {EncMolecule(m) : m \in {MolSalt, MolPair, MolChain, MolDangling,
                             MolAdrift, MolBadAtom}}

\* the mappings handed to mapped_positions directly: one that sends every
\* position to the origin, and the reflection that swaps q and r
ToOrigin(pos) == Hex(0, 0)
Swapped(pos) == Hex(pos.r, pos.q)

MolInit ==
    /\ molSrc \in MolSources
    /\ molPc = "parse"
    /\ mol0 = None
    /\ mol = None
    /\ molOps = 0
    /\ HexIdle /\ ParseIdle /\ ColIdle /\ SimIdle /\ BondIdle /\ RotIdle

\* BaseParser::parse_molecule on the bytes
MolParse ==
    /\ molPc = "parse"
    /\ \E r \in {parse_molecule(molSrc)} :
          IF r.st = "ok"
          THEN molPc' = "have" /\ mol0' = r.v /\ mol' = r.v
          ELSE molPc' = "rejected" /\ UNCHANGED <<mol0, mol>>
    /\ UNCHANGED <<molSrc, molOps>> /\ UNCHANGED notMolVars

MolTransformed(next) ==
    /\ mol' \in next
    /\ molOps' = molOps + 1
    /\ UNCHANGED <<molSrc, molPc, mol0>> /\ UNCHANGED notMolVars

MolCanTransform == molPc = "have" /\ molOps < MaxTransforms

MolTranslate ==
    /\ MolCanTransform
    /\ \E by \in MolPoints : MolTransformed(translated(mol, by))

MolRotate ==
    /\ MolCanTransform
    /\ \E around \in {Hex(0, 0), Hex(1, 0)} : \E by \in 0 .. 5 :
          MolTransformed(Molecule_rotated(mol, around, by))

MolMapToOrigin ==
    /\ MolCanTransform
    /\ MolTransformed(mapped_positions(mol, [pos \in Positions(mol) |-> ToOrigin(pos)]))

MolMapSwapped ==
    /\ MolCanTransform
    /\ MolTransformed(mapped_positions(mol, [pos \in Positions(mol) |-> Swapped(pos)]))

MolNext == MolParse \/ MolTranslate \/ MolRotate \/ MolMapToOrigin \/ MolMapSwapped

SpecMol == MolInit /\ [][MolNext]_vars

\* each bond's start and end is a key of the atom map
BondsOnAtoms(m) ==
    \A b \in m.bonds : b.start \in DOMAIN m.atoms /\ b.end \in DOMAIN m.atoms

\* C10 as stated: every Molecule parse_molecule returns, and every Molecule
\* the transforms make of it, has each bond's start and end among the keys
\* of its atom map.
C10_EveryMoleculeBonded == molPc = "have" => BondsOnAtoms(mol)

\* C10, the part that holds: mapped_positions, translated and rotated keep
\* the property, for any mapping: a Molecule made by transforms from one
\* whose bond ends are all atom keys has all its bond ends among its atom
\* keys.
C10_TransformsKeepBonded ==
    (molPc = "have" /\ BondsOnAtoms(mol0)) => BondsOnAtoms(mol)

C10_Witness ==
    /\ molPc = "have"
    /\ molOps = MaxTransforms
    /\ BondsOnAtoms(mol0)
    /\ Cardinality(mol0.bonds) = 2
    /\ mol.bonds # {} /\ mol.bonds # mol0.bonds
    /\ BondsOnAtoms(mol)

-----------------------------------------------------------------------------
(* Claims about the interaction radius.                                     *)

\* the radii the claim lists
ListedRadius(ty) ==
    CASE ty = "Atom" -> 29
      [] ty = "ArmBase" -> 20
      [] ty = "ArmGripper" -> 20
      [] ty = "ProducedAtom" -> 15
      [] ty = "ChamberWall" -> 20

-----------------------------------------------------------------------------
(* Claims about the strings, instructions, part types and bond types read.  *)

RECURSIVE VarInt7(_, _, _)
\* the 7-bit varint at the head of d as the claim describes it: bytes are
\* taken while the high bit of the byte just taken is set
VarInt7(d, value, shift) ==
    IF Len(d) = 0 THEN [v |-> value, d |-> d]
    ELSE LET value2 == value + (Head(d) % 128) * Pow2(shift)
         IN  IF Head(d) >= 128
             THEN VarInt7(Tail(d), value2, shift + 7)
             ELSE [v |-> value2, d |-> Tail(d)]

\* C12: parse_string reads the length as a 7-bit varint that goes on while
\* the high bit of the byte read is set, then exactly that many bytes: when
\* parse_puzzle has read the name, the name is the string of the varint's
\* length that follows the varint, and the parser stands behind it.
C12_StringLengthVarint ==
    (pKind = "puzzle" /\ pPc = "creator") =>
        LET len == VarInt7(Rest(pSrc.bytes, 4), 0, 0)
        IN  len.v <= Len(len.d) =>
                /\ pAcc.name = SubSeq(len.d, 1, len.v)
                /\ pData = Rest(len.d, len.v)

\* Instruction::from_id; the ids are the ASCII codes of ' ', G, g, R, r, E, e,
\* P, p, A, a, O, X, C
Instruction_from_id(id) ==
    CASE id = 32 -> Some("Blank")
      [] id = 71 -> Some("Grab")
      [] id = 103 -> Some("Drop")
      [] id = 82 -> Some("RotateClockwise")
      [] id = 114 -> Some("RotateAnticlockwise")
      [] id = 69 -> Some("Extend")
      [] id = 101 -> Some("Retract")
      [] id = 80 -> Some("PivotClockwise")
      [] id = 112 -> Some("PivotAnticlockwise")
      [] id = 65 -> Some("Advance")
      [] id = 97 -> Some("Retreat")
      [] id = 79 -> Some("PeriodOverride")
      [] id = 88 -> Some("Reset")
      [] id = 67 -> Some("Repeat")
      [] OTHER -> NoneOpt

\* the names PartType::from_name knows, as UTF-8 bytes, each with its type
PartTypeNames ==
    <<
       << <<105, 110, 112, 117, 116>>, "Input" >>,  \* input
       << <<111, 117, 116, 45, 115, 116, 100>>, "Output" >>,  \* out-std
       << <<111, 117, 116, 45, 114, 101, 112>>, "PolymerOutput" >>,  \* out-rep
       << <<97, 114, 109, 49>>, "Arm" >>,  \* arm1
       << <<97, 114, 109, 50>>, "BiArm" >>,  \* arm2
       << <<97, 114, 109, 51>>, "TriArm" >>,  \* arm3
       << <<97, 114, 109, 54>>, "HexArm" >>,  \* arm6
       << <<112, 105, 115, 116, 111, 110>>, "PistonArm" >>,  \* piston
       << <<116, 114, 97, 99, 107>>, "Track" >>,  \* track
       << <<98, 97, 114, 111, 110>>, "Berlo" >>,  \* baron
       << <<103, 108, 121, 112, 104, 45, 109, 97, 114, 107, 101, 114>>, "Equilibrium" >>,  \* glyph-marker
       << <<98, 111, 110, 100, 101, 114>>, "Bonding" >>,  \* bonder
       << <<98, 111, 110, 100, 101, 114, 45, 115, 112, 101, 101, 100>>, "MultiBonding" >>,  \* bonder-speed
       << <<117, 110, 98, 111, 110, 100, 101, 114>>, "Unbonding" >>,  \* unbonder
       << <<103, 108, 121, 112, 104, 45, 99, 97, 108, 99, 105, 102, 105, 99, 97, 116, 105, 111, 110>>, "Calcification" >>,  \* glyph-calcification
       << <<103, 108, 121, 112, 104, 45, 112, 114, 111, 106, 101, 99, 116, 105, 111, 110>>, "Projection" >>,  \* glyph-projection
       << <<103, 108, 121, 112, 104, 45, 112, 117, 114, 105, 102, 105, 99, 97, 116, 105, 111, 110>>, "Purification" >>,  \* glyph-purification
       << <<103, 108, 121, 112, 104, 45, 100, 117, 112, 108, 105, 99, 97, 116, 105, 111, 110>>, "Duplication" >>,  \* glyph-duplication
       << <<103, 108, 121, 112, 104, 45, 108, 105, 102, 101, 45, 97, 110, 100, 45, 100, 101, 97, 116, 104>>, "Animismus" >>,  \* glyph-life-and-death
       << <<103, 108, 121, 112, 104, 45, 117, 110, 105, 102, 105, 99, 97, 116, 105, 111, 110>>, "Unification" >>,  \* glyph-unification
       << <<103, 108, 121, 112, 104, 45, 100, 105, 115, 112, 101, 114, 115, 105, 111, 110>>, "Dispersion" >>,  \* glyph-dispersion
       << <<98, 111, 110, 100, 101, 114, 45, 112, 114, 105, 115, 109, 97>>, "TriplexBonding" >>,  \* bonder-prisma
       << <<103, 108, 121, 112, 104, 45, 100, 105, 115, 112, 111, 115, 97, 108>>, "Disposal" >>,  \* glyph-disposal
       << <<112, 105, 112, 101>>, "Conduit" >> >>  \* pipe

\* PartType::from_name
PartType_from_name(name) ==
    IF \E i \in 1 .. Len(PartTypeNames) : PartTypeNames[i][1] = name
    THEN Some(PartTypeNames[CHOOSE i \in 1 .. Len(PartTypeNames) : PartTypeNames[i][1] = name][2])
    ELSE NoneOpt

\* the solution files of the samples whose parts are known
SolutionOfParts(metrics, parts) ==
    SolutionSource(TRUE, 7, <<83>>, metrics, parts).bytes

KnownMetrics == { EncMetrics(0, <<>>, <<>>), FullMetrics }
KnownParts == PartsSamples \cup BadPartsSamples

\* the instruction list the claim expects of a part record
ExpectedInstructions(p) ==
    [i \in 1 .. Len(p.instructions) |->
        << Instruction_from_id(p.instructions[i][2]).v, p.instructions[i][1] >>]

InstructionsInTable(parts) ==
    \A k \in 1 .. Len(parts) : \A i \in 1 .. Len(parts[k].instructions) :
        Instruction_from_id(parts[k].instructions[i][2]).some

\* C13: for every (cycle index, instruction byte) pair of a part,
\* parse_solution stores the instruction Instruction::from_id gives for the
\* byte together with the index, and returns an error when the byte is not
\* in the table.
C13_InstructionsDecoded ==
    (Finished /\ pKind = "solution") =>
        \A metrics \in KnownMetrics : \A parts \in KnownParts :
            pSrc.bytes = SolutionOfParts(metrics, parts) =>
                IF InstructionsInTable(parts)
                THEN pRes.st = "ok" =>
                        \A k \in 1 .. Len(parts) :
                            pRes.v.parts[k].instructions = ExpectedInstructions(parts[k])
                ELSE pRes.st = "err"

NamesInTable(parts) ==
    \A k \in 1 .. Len(parts) : PartType_from_name(parts[k].name).some

\* C14: the type of every Part parse_solution returns is the type
\* PartType::from_name gives for the record's type name, and a type name
\* that is not in the table makes parse_solution return an error.
C14_PartTypeDecoded ==
    (Finished /\ pKind = "solution") =>
        \A metrics \in KnownMetrics : \A parts \in KnownParts :
            pSrc.bytes = SolutionOfParts(metrics, parts) =>
                IF NamesInTable(parts)
                THEN pRes.st = "ok" =>
                        \A k \in 1 .. Len(parts) :
                            pRes.v.parts[k].ty = PartType_from_name(parts[k].name).v
                ELSE pRes.st = "err"

-----------------------------------------------------------------------------
(* Specification SpecBond: parse_bond_type on every first byte.             *)

BondSources ==
    {<<>>} \cup {<<ty>> : ty \in 0 .. 255} \cup {<<ty, 1>> : ty \in 0 .. 255}

BondPending == [st |-> "pending"]

BondInit ==
    /\ bondIn \in BondSources
    /\ bondOut = BondPending
    /\ HexIdle /\ ParseIdle /\ ColIdle /\ SimIdle /\ MolIdle /\ RotIdle

\* BaseParser::parse_bond_type on the bytes
BondParse ==
    /\ bondOut = BondPending
    /\ bondOut' = parse_bond_type(bondIn)
    /\ UNCHANGED bondIn /\ UNCHANGED notBondVars

BondNext == BondParse

SpecBond == BondInit /\ [][BondNext]_vars

\* bit k of the byte ty
BitSet(ty, k) == (ty \div Pow2(k)) % 2 = 1

BondRead == bondOut # BondPending /\ Len(bondIn) >= 1

\* C15 as stated: byte 1 is Normal; any other byte is an error when one of
\* bits 4 to 7 is set, and otherwise Triplex with red, black and yellow
\* equal to bits 1, 2 and 3.
C15_BondTypeAsStated ==
    BondRead =>
        LET ty == bondIn[1]
        IN  /\ ty = 1 => bondOut.st = "ok" /\ bondOut.v = Normal
            /\ (ty # 1 /\ \E k \in 4 .. 7 : BitSet(ty, k)) => bondOut.st = "err"
            /\ (ty # 1 /\ \A k \in 4 .. 7 : ~BitSet(ty, k)) =>
                  /\ bondOut.st = "ok"
                  /\ bondOut.v = Triplex(BitSet(ty, 1), BitSet(ty, 2), BitSet(ty, 3))

\* C15, amended: byte 1 is Normal; any other byte is an error when bit 0 or
\* one of bits 4 to 7 is set, and otherwise Triplex with red, black and
\* yellow equal to bits 1, 2 and 3; the byte is consumed when the result is
\* a bond type.
C15_BondTypeDecoded ==
    BondRead =>
        LET ty == bondIn[1]
            Refused == BitSet(ty, 0) \/ \E k \in 4 .. 7 : BitSet(ty, k)
        IN  /\ ty = 1 => bondOut.st = "ok" /\ bondOut.v = Normal
            /\ (ty # 1 /\ Refused) => bondOut.st = "err"
            /\ (ty # 1 /\ ~Refused) =>
                  /\ bondOut.st = "ok"
                  /\ bondOut.v = Triplex(BitSet(ty, 1), BitSet(ty, 2), BitSet(ty, 3))
            /\ bondOut.st = "ok" => bondOut.d = Tail(bondIn)

\* the byte with bits 1 and 3 set was read as a red and yellow triplex bond
C15_Witness ==
    /\ bondIn = <<10, 1>>
    /\ bondOut.st = "ok"
    /\ bondOut.v = Triplex(TRUE, FALSE, TRUE)
    /\ bondOut.d = <<1>>

-----------------------------------------------------------------------------
(* Specification SpecOutput: a Sim is created, molecules are put into       *)
(* Sim::molecules (a pub field; nothing in src/ fills it), then the parts   *)
(* are ticked.                                                              *)

MaxPlaced == 1

\* a single atom away from the origin of its layout
ShiftedAtom(a) == [atoms |-> (Hex(-1, 0) :> a), bonds |-> {}]

PlacedLayouts == {SingleAtom(a) : a \in RunAtoms} \cup {ShiftedAtom(a) : a \in RunAtoms}

\* SimMolecule{ layout, pos, grabbed: false } pushed onto sim.molecules,
\* before the first tick
SimPlace ==
    /\ simPc = "ready"
    /\ simTicks = <<>>
    /\ Len(simMolecules) < MaxPlaced
    /\ \E layout \in PlacedLayouts : \E pos \in RunPoints :
          simMolecules' = Append(simMolecules,
                                 [layout |-> layout, pos |-> pos, grabbed |-> FALSE])
    /\ UNCHANGED <<simPuzzle, simSolution, simPc, simClean, simParts, simRes,
                   simReads, simTicks>>
    /\ UNCHANGED notSimVars

OutputSolutions ==
    {[parts |-> <<PartOf("Output", pos, 0, 0)>>] : pos \in RunPoints}
    \cup {[parts |-> <<PartOf("Input", Hex(0, 0), 0, 0), PartOf("Output", pos, 0, 0)>>] :
             pos \in RunPoints}

OutputInit == SimInitWith(RunPuzzles, OutputSolutions)

OutputNext == SimClean \/ SimBuildPart \/ SimCollect \/ SimPlace \/ SimTick

SpecOutput == OutputInit /\ [][OutputNext]_vars

\* the targets of the Output parts of the Sim
OutputTargets ==
    {simParts[i].ty.m : i \in {j \in 1 .. Len(simParts) : simParts[j].ty.kind = "Output"}}

\* same number of atoms, equal bond sets, and every target atom position
\* holds an atom of the same type in the instance, positions and bonds both
\* taken in the frame of the instance's layout
SameStructure(instance, target) ==
    /\ Cardinality(DOMAIN instance.layout.atoms) = Cardinality(DOMAIN target.atoms)
    /\ instance.layout.bonds = target.bonds
    /\ \A key \in DOMAIN target.atoms :
          /\ key \in DOMAIN instance.layout.atoms
          /\ instance.layout.atoms[key] = target.atoms[key]

\* C16: SimMolecule::is(target) is true exactly when instance and target
\* have the same structure, bonds and atom positions compared in one frame;
\* a SimMolecule whose layout equals the target is the target whatever its
\* pos.
C16_IsSameStructure ==
    simPc = "ready" =>
        \A k \in 1 .. Len(simMolecules) : \A target \in OutputTargets :
            /\ SimMolecule_is(simMolecules[k], target)
                  <=> SameStructure(simMolecules[k], target)
            /\ simMolecules[k].layout = target
                  => SimMolecule_is(simMolecules[k], target)

LastTicked == simParts[simTicks[Len(simTicks)]]

\* C17: a tick of an Output never panics; when no molecule lies at the
\* Output's position, or the one that does is not the target, the tick
\* leaves the molecules and the counter as they were; when it is the
\* target, the counter has gone up.
C17_OutputTickConsumes ==
    (simTicks # <<>> /\ LastTicked.ty.kind = "Output") =>
        /\ simPc = "ready"
        /\ LET k == lookup_atom(simMolecules, LastTicked.pos)
           IN  IF k # 0 /\ SimMolecule_is(simMolecules[k], LastTicked.ty.m)
               THEN LastTicked.ty.outputs >= 1
               ELSE LastTicked.ty.outputs = 0

-----------------------------------------------------------------------------
(* HexRotation arithmetic (data.rs).  A HexRotation is modelled by its      *)
(* `turns` field.                                                           *)

\* `x as u8` of a signed value: two's complement, the low eight bits
as_u8(x) == x % 256

\* <HexRotation as Sub>::sub without the `+ 6` that lifts the difference
\* out of the negatives
HexRotation_sub_NoLift(self, rhs) == as_u8(RustRem(self - RustRem(rhs, 6), 6))

\* <HexRotation as Add>::add; both fields are below 6, the u8 sum cannot wrap
HexRotation_add(self, rhs) == (self + rhs) % 6

\* <HexRotation as Sub>::sub: `%` binds tighter than `-`, so only rhs.turns
\* is reduced before the subtraction
HexRotation_sub(self, rhs) ==
    as_u8(RustRem((self - RustRem(rhs, 6)) + 6, 6))

\* <HexRotation as From<T>>::from
HexRotation_from(turns) == from_signed(turns)

(* Specification SpecRot: a HexRotation starts as HexRotation::default()    *)
(* and is rebuilt from numbers, added to and subtracted from, either by     *)
(* the operators (the result replaces the left operand) or in place.        *)

RotArgMax == 7
MaxRotOps == 3

\* numbers handed to the constructors: negatives, values of 6 and more, and
\* the ends of the range TLC's integers have
SignedArgs == (-RotArgMax..RotArgMax) \cup {-MaxI32, -13, -12, 12, 13, MaxI32}
UnsignedArgs == (0..RotArgMax) \cup {12, 13, MaxI32}

\* every HexRotation a caller can hold
Rotations == {from_signed(t) : t \in SignedArgs}
                 \cup {from_unsigned(t) : t \in UnsignedArgs}

RotInit ==
    /\ rotA = 0 /\ rotB = 0 /\ rotOp = "default" /\ rotWas = 0
    /\ rotOut = 0 /\ rotN = 0
    /\ HexIdle /\ ParseIdle /\ ColIdle /\ SimIdle /\ MolIdle /\ BondIdle

\* one operation `op` on operand `b` that leaves `out` in the rotation
RotStep(op, b, out) ==
    /\ rotN < MaxRotOps
    /\ rotOp' = op /\ rotB' = b /\ rotWas' = rotA
    /\ rotOut' = out /\ rotA' = out
    /\ rotN' = rotN + 1
    /\ UNCHANGED notRotVars

RotFromUnsigned ==
    \E t \in UnsignedArgs : RotStep("from_unsigned", t, from_unsigned(t))

RotFromSigned ==
    \E t \in SignedArgs : RotStep("from_signed", t, from_signed(t))

RotFrom ==
    \E t \in SignedArgs : RotStep("from", t, HexRotation_from(t))

RotAdd ==
    \E b \in Rotations : RotStep("add", b, HexRotation_add(rotA, b))

\* add_assign: `*self = *self + rhs`
RotAddAssign ==
    \E b \in Rotations : RotStep("add_assign", b, HexRotation_add(rotA, b))

RotSub ==
    \E b \in Rotations : RotStep("sub", b, HexRotation_sub(rotA, b))

\* sub_assign: `*self = *self - rhs`
RotSubAssign ==
    \E b \in Rotations : RotStep("sub_assign", b, HexRotation_sub(rotA, b))

RotNext ==
    \/ RotFromUnsigned \/ RotFromSigned \/ RotFrom
    \/ RotAdd \/ RotAddAssign \/ RotSub \/ RotSubAssign

SpecRot == RotInit /\ [][RotNext]_vars

\* C18: after any sequence of constructions, additions and subtractions a
\* HexRotation holds a turn count in 0..5; a constructor leaves its argument
\* modulo 6 (non-negative also for a negative argument), a + b is
\* (a.turns + b.turns) mod 6 and a - b is (a.turns - b.turns) mod 6 taken
\* non-negative, for the operators and for += and -= alike.
C18_RotationsNormalised ==
    /\ rotA \in 0..5 /\ rotOut \in 0..5 /\ rotWas \in 0..5
    /\ rotOp \in {"from_unsigned", "from_signed", "from"}
           => rotOut = rotB % 6
    /\ rotOp \in {"add", "add_assign"}
           => rotB \in 0..5 /\ rotOut = (rotWas + rotB) % 6
    /\ rotOp \in {"sub", "sub_assign"}
           => rotB \in 0..5 /\ rotOut = (rotWas - rotB) % 6

\* a subtraction whose plain difference is negative, after a full sequence
C18_Witness ==
    /\ rotN = MaxRotOps /\ rotOp = "sub"
    /\ rotWas = 1 /\ rotB = 4 /\ rotOut = 3 /\ rotA = 3
-----------------------------------------------------------------------------
(* Claims about Sim::create as a whole.                                     *)

\* the part types SimPartType::from_solution_part has no arm for
UnsupportedTypes ==
    {"PolymerOutput", "Berlo", "Equilibrium", "Duplication", "Unification",
     "Dispersion", "TriplexBonding", "Disposal"}

HasUnsupported ==
    \E k \in 1 .. Len(simSolution.parts) :
        simSolution.parts[k].ty \in UnsupportedTypes

\* C19: Sim::create never panics and ends with a Sim or an error; the Sim
\* has one SimPart per solution part, in the solution's order, each with
\* the part's position and its raw rotation reduced to 0..5, and no
\* molecules; a solution that passes clean_solution and holds a part of an
\* unsupported type ends with an error, never with a Sim.
C19_CreateTotal ==
    /\ simPc \in {"clean", "build", "ready", "err"}
    /\ simPc = "ready" =>
          /\ Len(simParts) = Len(simSolution.parts)
          /\ \A k \in 1 .. Len(simParts) :
                /\ simParts[k].pos = simSolution.parts[k].pos
                /\ simParts[k].rotation \in 0 .. 5
                /\ simParts[k].rotation = simSolution.parts[k].rotation % 6
          /\ simMolecules = <<>>
          /\ ~HasUnsupported
    /\ (simPc = "err" /\ simRes.at = "from_solution_part") =>
          /\ HasUnsupported
          /\ simRes.msg = "unknown part type"
    /\ (HasUnsupported /\ clean_solution(simPuzzle, simSolution).st = "ok") =>
          /\ simPc # "ready"
          /\ Len(simParts) < Len(simSolution.parts)

\* a Sim of two parts in the solution's order, the second with its raw
\* rotation 1 kept
C19_Witness ==
    /\ simPc = "ready" /\ Len(simParts) = 2
    /\ simSolution.parts[1].ty = "Input" /\ simSolution.parts[2].ty = "Arm"
    /\ simParts[1].pos = Hex(0, 0) /\ simParts[2].pos = Hex(2, 0)
    /\ simParts[2].rotation = 1
=============================================================================
